---- MODULE Spec2Model ----
(***************************************************************************)
(* The expression parser (style-spec/function/expression.js), the `match`  *)
(* operator (style-spec/function/definitions/match.js) and array-literal   *)
(* type inference, as a state machine: a raw JSON expression is parsed,    *)
(* the resulting tree is serialized, and a parsed `match` is compiled and  *)
(* evaluated against input values.                                         *)
(***************************************************************************)
EXTENDS Integers, Sequences, FiniteSets

VARIABLES
    raw,        \* the raw JSON expression handed to parseExpression
    pc,         \* "start" | "parsed" | "failed" | "serialized" | "compiled" | "evaluated"
    result,     \* what parseExpression returned or threw
    serialized, \* what node.serialize(withTypes) returned
    withTypes,  \* the flag serialize was called with
    compiled,   \* what MatchExpression.compile built: outputs, inputMap, input
    input,      \* the value the compiled input expression produced in this evaluation
    invoked,    \* the indices into `outputs` of the thunks invoked by this evaluation
    returned    \* the value this evaluation returned

vars == <<raw, pc, result, serialized, withTypes, compiled, input, invoked, returned>>

-----------------------------------------------------------------------------
(* JSON / JavaScript values, tagged with their kind.                       *)

Null == [t |-> "null"]
Undefined == [t |-> "undefined"]
Num(n) == [t |-> "number", n |-> n]
Str(s) == [t |-> "string", s |-> s]
Bool(b) == [t |-> "boolean", b |-> b]
Arr(a) == [t |-> "array", a |-> a]
Obj == [t |-> "object"]

\* a value that was not produced (a variable not yet assigned)
None == [t |-> "none"]

isArray(v) == v.t = "array"

\* JavaScript's typeof operator
typeof(v) ==
    CASE v.t = "number" -> "number"
      [] v.t = "string" -> "string"
      [] v.t = "boolean" -> "boolean"
      [] v.t = "undefined" -> "undefined"
      [] OTHER -> "object"

Digit(d) ==
    CASE d = 0 -> "0" [] d = 1 -> "1" [] d = 2 -> "2" [] d = 3 -> "3"
      [] d = 4 -> "4" [] d = 5 -> "5" [] d = 6 -> "6" [] d = 7 -> "7"
      [] d = 8 -> "8" [] d = 9 -> "9"

RECURSIVE NatToString(_)
NatToString(n) ==
    IF n < 10 THEN Digit(n) ELSE NatToString(n \div 10) \o Digit(n % 10)

\* Number to decimal text (integers only: the model's numbers are integers)
NumberToString(n) == IF n < 0 THEN "-" \o NatToString(-n) ELSE NatToString(n)

\* JavaScript's ToString conversion, as performed by String(v), by string
\* concatenation ('-' + v) and by template literals
RECURSIVE ToString(_), JoinValues(_)
ToString(v) ==
    CASE v.t = "number" -> NumberToString(v.n)
      [] v.t = "string" -> v.s
      [] v.t = "boolean" -> IF v.b THEN "true" ELSE "false"
      [] v.t = "null" -> "null"
      [] v.t = "undefined" -> "undefined"
      [] v.t = "array" -> JoinValues(v.a)
      [] OTHER -> "[object Object]"
\* Array.prototype.join(','): null and undefined elements give the empty string
JoinValues(a) ==
    IF a = <<>> THEN ""
    ELSE LET h == Head(a)
             hs == IF h.t \in {"null", "undefined"} THEN "" ELSE ToString(h)
         IN IF Len(a) = 1 THEN hs ELSE hs \o "," \o JoinValues(Tail(a))

-----------------------------------------------------------------------------
(* Types (./types is not among the sources: the descriptors follow the     *)
(* data model of the specification).                                       *)

NullType == [kind |-> "primitive", name |-> "Null"]
StringType == [kind |-> "primitive", name |-> "String"]
NumberType == [kind |-> "primitive", name |-> "Number"]
BooleanType == [kind |-> "primitive", name |-> "Boolean"]
ObjectType == [kind |-> "primitive", name |-> "Object"]
ValueType == [kind |-> "primitive", name |-> "Value"]
NoType == [kind |-> "undefined", name |-> "undefined"]

array(itemType, N) == [kind |-> "array", itemType |-> itemType, N |-> N]
typename(name) == [kind |-> "typename", name |-> name]
nargs(N, types) == [kind |-> "nargs", N |-> N, types |-> types]
lambda(resultType, params) == [kind |-> "lambda", result |-> resultType, params |-> params]

\* primitiveTypes[typeof item]; NoType when the table has no such key
primitiveTypes(typeofName) ==
    CASE typeofName = "string" -> StringType
      [] typeofName = "number" -> NumberType
      [] typeofName = "boolean" -> BooleanType
      [] OTHER -> NoType


\* array(itemType) called without a length: N is undefined (no N field)
arrayOfUnknownLength(itemType) == [kind |-> "array", itemType |-> itemType]

-----------------------------------------------------------------------------
(* ParsingContext, ParsingError and the syntax tree.                       *)

\* path.join('.')
RECURSIVE join(_)
join(path) ==
    IF path = <<>> THEN ""
    ELSE IF Len(path) = 1 THEN NatToString(path[1])
    ELSE NatToString(Head(path)) \o "." \o join(Tail(path))

ParsingContext(path, ancestors) ==
    [path |-> path, key |-> join(path), ancestors |-> ancestors]

\* context.concat(index, expressionName)
concat(context, index, expressionName) ==
    ParsingContext(Append(context.path, index),
                   IF expressionName # "" THEN Append(context.ancestors, expressionName)
                   ELSE context.ancestors)

ParsingError(key, message) == [key |-> key, message |-> message]

\* `throw new ParsingError(key, message)`; `at` is the raw-array index path of the
\* element the throw site names: context.path followed by the indices the site
\* appends to context.key
Throw(key, message, at) == [ok |-> FALSE, error |-> ParsingError(key, message), at |-> at]
Return(node) == [ok |-> TRUE, node |-> node]

LiteralExpression(key, type, value) ==
    [class |-> "LiteralExpression", key |-> key, type |-> type, value |-> value]

\* new Cls(key, type, args) for a subclass Cls of LambdaExpression
LambdaExpression(class, key, type, args) ==
    [class |-> class, key |-> key, type |-> type, args |-> args]

\* the operator registry handed to the ParsingContext: `match`, and one operator
\* that keeps the default LambdaExpression.parse
definitions == {"match", "get"}

MatchExpression_getType ==
    lambda(typename("T"),
           <<typename("U"),
             nargs("Infinity", <<arrayOfUnknownLength(typename("U")), typename("T")>>),
             typename("T")>>)

\* Cls.getType() of the registered classes
getType(op) ==
    IF op = "match" THEN MatchExpression_getType
    ELSE lambda(ValueType, <<StringType>>)

-----------------------------------------------------------------------------
(* Literals.                                                               *)

\* the loop of inferArrayType: items k.. of value, with itemType so far
RECURSIVE inferItemType(_, _, _)
inferItemType(value, k, itemType) ==
    IF k > Len(value) THEN itemType
    ELSE LET t == primitiveTypes(typeof(value[k]))
         IN IF t # NoType /\ itemType = NoType THEN inferItemType(value, k + 1, t)
            ELSE IF t # NoType /\ itemType = t THEN inferItemType(value, k + 1, itemType)
            ELSE ValueType

\* a changed inference: no length is passed when the item type is Value
inferArrayType_noLengthForValue(value) ==
    LET itemType == inferItemType(value, 1, NoType)
    IN IF itemType \in {NoType, ValueType} THEN arrayOfUnknownLength(ValueType)
       ELSE array(itemType, Len(value))

inferArrayType(value) ==
    LET itemType == inferItemType(value, 1, NoType)
    IN array(IF itemType # NoType THEN itemType ELSE ValueType, Len(value))

\* the type a literal value gets
literalType(value) ==
    IF value = Null THEN NullType
    ELSE IF isArray(value) THEN inferArrayType(value.a)
    ELSE IF typeof(value) = "object" THEN ObjectType
    ELSE primitiveTypes(typeof(value))

\* isValue of ./values: every JSON value is a Value, undefined is not
isValue(v) == v.t \in {"null", "string", "number", "boolean", "array", "object"}

\* LiteralExpression.parse(args, context), args being expr.slice(1)
LiteralExpression_parse(args, context) ==
    IF Len(args) # 1
    THEN Throw(context.key,
               "'literal' expression requires exactly one argument, but found "
                   \o NatToString(Len(args)) \o " instead.",
               context.path)
    ELSE IF ~isValue(args[1])
    THEN Throw(context.key, "invalid value", context.path)
    ELSE Return(LiteralExpression(context.key, literalType(args[1]), args[1]))


-----------------------------------------------------------------------------
(* MatchExpression.parse: the checks made before the arguments are parsed. *)

\* a changed arity check: `args.length < 1`
tooFewArguments_lessThanOne(args) == Len(args) < 1

\* `args.length < 2`
tooFewArguments(args) == Len(args) < 2

\* `i % 2 === 1`: position i of args (counted from 0) holds a label set
isInputPosition(i) == i % 2 = 1

\* `Array.isArray(arg) ? arg : [arg]`
inputGroupOf(arg) == IF isArray(arg) THEN arg.a ELSE <<arg>>

\* a changed test: null is let through
isRejectedInputValue_nullAccepted(inputValue) ==
    typeof(inputValue) = "object" /\ inputValue # Null

\* `typeof inputValue === 'object'`
isRejectedInputValue(inputValue) == typeof(inputValue) = "object"

\* the inner loop over inputGroup: the first j (counted from 0) whose value is
\* rejected, -1 when the loop ends without throwing
RECURSIVE firstRejected(_, _)
firstRejected(inputGroup, j) ==
    IF j >= Len(inputGroup) THEN -1
    ELSE IF isRejectedInputValue(inputGroup[j + 1]) THEN j
    ELSE firstRejected(inputGroup, j + 1)

\* a changed location: the position in args, not in the raw array
inputGroupKey_argsIndex(context, i) == context.key \o "." \o NatToString(i)

\* the location `${context.key}.${i + 1}` of a label set
inputGroupKey(context, i) == context.key \o "." \o NatToString(i + 1)

\* the location `${context.key}.${i + 1}.${j}` of a value of a label set
inputValueKey(context, i, j) ==
    context.key \o "." \o NatToString(i + 1) \o "." \o NatToString(j)

\* the loop `for (let i = 1; i < args.length - 1; i++)`: either the ParsingError
\* thrown, or the normalizedArgs built (args counted from 0: args[i] is args[i + 1] here)
RECURSIVE normalizeArgs(_, _, _, _)
normalizeArgs(args, context, i, normalizedArgs) ==
    IF ~(i < Len(args) - 1) THEN [ok |-> TRUE, normalizedArgs |-> normalizedArgs]
    ELSE LET arg == args[i + 1] IN
         IF isInputPosition(i)
         THEN LET inputGroup == inputGroupOf(arg)
                  j == firstRejected(inputGroup, 0)
              IN IF Len(inputGroup) = 0
                 THEN Throw(inputGroupKey(context, i),
                            "Expected at least one input value.",
                            Append(context.path, i + 1))
                 ELSE IF j # -1
                 THEN Throw(inputValueKey(context, i, j),
                            "Match inputs must be literal primitive values or arrays of literal primitive values.",
                            context.path \o <<i + 1, j>>)
                 ELSE normalizeArgs(args, context, i + 1,
                          Append(normalizedArgs, Arr(<<Str("literal"), Arr(inputGroup)>>)))
         ELSE normalizeArgs(args, context, i + 1, Append(normalizedArgs, arg))

-----------------------------------------------------------------------------
(* The recursive parser.                                                   *)

RECURSIVE parseExpression(_, _), parseArgs(_, _, _, _), LambdaExpression_parse(_, _, _),
          MatchExpression_parse(_, _)

\* the loop of the default parse: parsedArgs so far; the first exception ends it
parseArgs(op, args, context, parsedArgs) ==
    IF Len(parsedArgs) = Len(args) THEN [ok |-> TRUE, parsedArgs |-> parsedArgs]
    ELSE LET r == parseExpression(args[Len(parsedArgs) + 1],
                                  concat(context, 1 + Len(parsedArgs), op))
         IN IF r.ok THEN parseArgs(op, args, context, Append(parsedArgs, r.node))
            ELSE r

\* a changed constructor call: the node gets the result type of the declaration
LambdaExpression_parse_resultType(op, args, context) ==
    LET r == parseArgs(op, args, context, <<>>)
    IN IF r.ok
       THEN Return(LambdaExpression(op, context.key, getType(op).result, r.parsedArgs))
       ELSE r

\* LambdaExpression.parse(args, context) with `this` the class registered as op
LambdaExpression_parse(op, args, context) ==
    LET r == parseArgs(op, args, context, <<>>)
    IN IF r.ok
       THEN Return(LambdaExpression(op, context.key, getType(op), r.parsedArgs))
       ELSE r

\* a changed order: the input expression is parsed before the label sets are
\* looked at
MatchExpression_parse_inputFirst(args, context) ==
    IF tooFewArguments(args)
    THEN Throw(context.key,
               "Expected at least 2 arguments, but found only "
                   \o NatToString(Len(args)) \o ".",
               context.path)
    ELSE LET r == parseExpression(args[1], concat(context, 1, "match"))
             n == normalizeArgs(args, context, 1, <<args[1]>>)
         IN IF ~r.ok THEN r
            ELSE IF ~n.ok THEN n
            ELSE LambdaExpression_parse("match",
                     Append(n.normalizedArgs, args[Len(args)]), context)

\* MatchExpression.parse(args, context): the arity check, the loop over the
\* label sets, then super.parse(normalizedArgs, context)
MatchExpression_parse(args, context) ==
    IF tooFewArguments(args)
    THEN Throw(context.key,
               "Expected at least 2 arguments, but found only "
                   \o NatToString(Len(args)) \o ".",
               context.path)
    ELSE LET n == normalizeArgs(args, context, 1, <<args[1]>>)
         IN IF ~n.ok THEN n
            ELSE LambdaExpression_parse("match",
                     Append(n.normalizedArgs, args[Len(args)]), context)

parseExpression(expr, context) ==
    LET key == context.key IN
    IF expr = Null THEN Return(LiteralExpression(key, NullType, expr))
    ELSE IF typeof(expr) = "undefined"
    THEN Throw(key, "'undefined' value invalid. Use null instead.", context.path)
    ELSE IF typeof(expr) = "string" THEN Return(LiteralExpression(key, StringType, expr))
    ELSE IF typeof(expr) = "boolean" THEN Return(LiteralExpression(key, BooleanType, expr))
    ELSE IF typeof(expr) = "number" THEN Return(LiteralExpression(key, NumberType, expr))
    ELSE IF isArray(expr)
    THEN IF Len(expr.a) = 0
         THEN Throw(key,
                    "Expected an array with at least one element. If you wanted a literal array, use [\"literal\", []].",
                    context.path)
         ELSE LET op == expr.a[1] IN
              IF typeof(op) # "string"
              THEN Throw(key \o ".0",
                         "Expression name must be a string, but found " \o typeof(op)
                             \o " instead. If you wanted a literal array, use [\"literal\", [...]].",
                         Append(context.path, 0))
              ELSE IF op.s = "literal"
              THEN LiteralExpression_parse(Tail(expr.a), context)
              ELSE IF op.s \notin definitions
              THEN Throw(key \o ".0",
                         "Unknown expression \"" \o op.s
                             \o "\". If you wanted a literal array, use [\"literal\", [...]].",
                         Append(context.path, 0))
              ELSE IF op.s = "match" THEN MatchExpression_parse(Tail(expr.a), context)
              ELSE LambdaExpression_parse(op.s, Tail(expr.a), context)
    ELSE Throw(key, "Bare objects invalid. Use [\"literal\", {...}] instead.", context.path)

-----------------------------------------------------------------------------
(* Serialization.                                                          *)

RECURSIVE serialize(_, _), serializeArgs(_, _)

\* this.args.map(e => e.serialize(withTypes))
serializeArgs(args, types) ==
    IF args = <<>> THEN <<>>
    ELSE <<serialize(Head(args), types)>> \o serializeArgs(Tail(args), types)

\* LiteralExpression.serialize (no Color value comes out of JSON input) and
\* LambdaExpression.serialize
serialize(node, types) ==
    IF node.class = "LiteralExpression"
    THEN IF node.value = Null \/ typeof(node.value) \in {"string", "boolean", "number"}
         THEN node.value
         ELSE Arr(<<Str("literal"), node.value>>)
    ELSE LET type == IF node.type.kind = "lambda" THEN node.type.result.name
                     ELSE node.type.name
         IN Arr(<<Str(node.class \o (IF types THEN ": " \o type ELSE ""))>>
                \o serializeArgs(node.args, types))


-----------------------------------------------------------------------------
(* MatchExpression.compile and the evaluator it generates.  A compiled     *)
(* argument is [js, expression]; js, a JavaScript source text in the code, *)
(* is modelled by the expression it was compiled from.                     *)

CompiledExpression(node) == [js |-> node, expression |-> node]

\* the first loop of compile: the label-set literals at odd positions
RECURSIVE compileInputs(_, _)
compileInputs(args, i) ==
    IF ~(i < Len(args) - 1) THEN <<>>
    ELSE IF isInputPosition(i) THEN <<args[i + 1].expression>> \o compileInputs(args, i + 1)
    ELSE compileInputs(args, i + 1)

\* the first loop of compile: the thunks `() => js` of the even positions
RECURSIVE compileOutputs(_, _)
compileOutputs(args, i) ==
    IF ~(i < Len(args) - 1) THEN <<>>
    ELSE IF isInputPosition(i) THEN compileOutputs(args, i + 1)
    ELSE <<args[i + 1].js>> \o compileOutputs(args, i + 1)

\* a changed table key: every value tagged as a string
inputMapKey_taggedString(value) == "string" \o "-" \o ToString(value)

\* the key a label value is stored under: `${typeof value}-${String(value)}`
inputMapKey(value) == typeof(value) \o "-" \o ToString(value)

\* a changed table write: an existing entry is kept
put_keepFirst(inputMap, key, i) ==
    [k \in DOMAIN inputMap \cup {key} |-> IF k \in DOMAIN inputMap THEN inputMap[k] ELSE i]

\* a changed table write: the index after i is stored
put_nextIndex(inputMap, key, i) ==
    [k \in DOMAIN inputMap \cup {key} |-> IF k = key THEN i + 1 ELSE inputMap[k]]

\* inputMap[key] = i
put(inputMap, key, i) ==
    [k \in DOMAIN inputMap \cup {key} |-> IF k = key THEN i ELSE inputMap[k]]

\* `for (const value of values) inputMap[key] = i`
RECURSIVE putValues(_, _, _)
putValues(inputMap, values, i) ==
    IF values = <<>> THEN inputMap
    ELSE putValues(put(inputMap, inputMapKey(Head(values)), i), Tail(values), i)

\* `for (let i = 0; i < inputs.length; i++)` over the label sets
RECURSIVE buildInputMap(_, _, _)
buildInputMap(inputMap, inputs, i) ==
    IF ~(i < Len(inputs)) THEN inputMap
    ELSE buildInputMap(putValues(inputMap, inputs[i + 1].value.a, i), inputs, i + 1)

\* the two assert() calls of compile
compileAsserts(inputs) ==
    \A k \in 1..Len(inputs) :
        inputs[k].class = "LiteralExpression" /\ isArray(inputs[k].value)

\* what the generated function closes over.  JSON.stringify(inputMap), read back
\* as an object literal, gives the same string keys and integer values.
MatchExpression_compile(args) ==
    [input |-> args[1].js,
     outputs |-> Append(compileOutputs(args, 1), args[Len(args)].js),
     inputMap |-> buildInputMap(<<>>, compileInputs(args, 1), 0),
     asserts |-> compileAsserts(compileInputs(args, 1))]

\* this.typeOf(value) of the evaluation context: the name of the value's type
typeOf(value) ==
    CASE value.t = "null" -> "Null"
      [] value.t = "string" -> "String"
      [] value.t = "number" -> "Number"
      [] value.t = "boolean" -> "Boolean"
      [] value.t = "array" -> "Array"
      [] OTHER -> "Object"

\* String.prototype.toLowerCase on the type names
toLowerCase(name) ==
    CASE name = "Null" -> "null"
      [] name = "String" -> "string"
      [] name = "Number" -> "number"
      [] name = "Boolean" -> "boolean"
      [] name = "Array" -> "array"
      [] name = "Object" -> "object"

\* `this.typeOf(input).toLowerCase() + '-' + input`
lookupKey(value) == toLowerCase(typeOf(value)) \o "-" \o ToString(value)

\* `inputMap[...]`: the stored index, or undefined
outputIndexOf(inputMap, value) ==
    IF lookupKey(value) \in DOMAIN inputMap THEN Num(inputMap[lookupKey(value)])
    ELSE Undefined

\* a changed selection: a miss selects the first thunk
selectedOutput_missFirst(outputs, outputIndex) ==
    IF typeof(outputIndex) = "number" THEN outputIndex.n ELSE 0

\* `typeof outputIndex === 'number' ? outputs[outputIndex] : outputs[outputs.length - 1]`:
\* the index (from 0) of the thunk the generated function selects
selectedOutput(outputs, outputIndex) ==
    IF typeof(outputIndex) = "number" THEN outputIndex.n ELSE Len(outputs) - 1

\* a changed generated function: the outputs array holds results, not thunks
thunksInvoked_eager(outputs, outputIndex) == [k \in 1..Len(outputs) |-> k - 1]

\* the thunks of `outputs` the generated function calls, in order
thunksInvoked(outputs, outputIndex) == <<selectedOutput(outputs, outputIndex)>>

\* what a compiled argument's js evaluates to: a literal gives its value back
\* (JSON.stringify, read as source); an operator of the registry gives whatever
\* that operator computes for the record, identified here by the node's location
evaluateJs(js) ==
    IF js.class = "LiteralExpression" THEN js.value
    ELSE [t |-> "computed", by |-> js.class, key |-> js.key]


-----------------------------------------------------------------------------
(* The raw expressions and input values explored.                          *)

\* most arguments after the operator name in a `match` whose labels may be invalid
MaxArgs == 5
\* most label sets in a `match` that is compiled and evaluated
MaxBranches == 2
\* most values in one label set
MaxLabelLen == 2
\* most items in a literal array
MaxArrayLen == 3
\* most operators enclosing the expression
MaxDepth == 2

SeqsUpTo(S, n) == UNION {[1..k -> S] : k \in 0..n}

GetX == Arr(<<Str("get"), Str("x")>>)
GetY == Arr(<<Str("get"), Str("y")>>)
UnknownOp == Arr(<<Str("foo"), Num(1)>>)

\* values offered as members of a label set where parsing is explored: one that
\* is accepted and the three kinds whose typeof is 'object'
LabelValues == {Num(0), Null, Obj, Arr(<<Num(0)>>)}
\* a label argument of up to n values: a bare value, or an array of values
Labels(n) ==
    (LabelValues \ {Arr(<<Num(0)>>)}) \cup {Arr(a) : a \in SeqsUpTo(LabelValues, n)}

\* values offered as members of a label set where evaluation is explored
DispatchValues == <<Num(0), Str("0"), Bool(FALSE), Str("false")>>

\* the values numbered by S, in the order of DispatchValues
RECURSIVE inOrder(_)
inOrder(S) ==
    IF S = {} THEN <<>>
    ELSE LET m == CHOOSE j \in S : \A k \in S : j <= k
         IN <<DispatchValues[m]>> \o inOrder(S \ {m})

\* a label set of one to n distinct values
DispatchLabels(n) ==
    {Arr(inOrder(S)) : S \in {T \in SUBSET (1..Len(DispatchValues)) :
                                  Cardinality(T) >= 1 /\ Cardinality(T) <= n}}

OutputNames == <<"a", "b", "c", "d", "e", "f", "g", "h", "i", "j">>

\* the first label set has up to MaxLabelLen values, the later ones up to one
LabelLen(k) == IF k = 2 THEN MaxLabelLen ELSE 1

\* what may stand at position k (from 1) of n match arguments
ParsedPosition(k, n) ==
    IF k = 1 THEN {GetX, UnknownOp}
    ELSE IF k < n /\ isInputPosition(k - 1) THEN Labels(LabelLen(k))
    ELSE IF k < n THEN {Str(OutputNames[k])}
    ELSE {Str(OutputNames[k]), Obj}

DispatchPosition(k, n) ==
    IF k = 1 THEN {GetX, Num(0)}
    ELSE IF k < n /\ isInputPosition(k - 1) THEN DispatchLabels(LabelLen(k))
    ELSE IF k < n THEN {Str(OutputNames[k])}
    ELSE {Str("z"), GetY}

RECURSIVE parsedArgLists(_, _)
parsedArgLists(k, n) ==
    IF k > n THEN {<<>>}
    ELSE {<<x>> \o rest : x \in ParsedPosition(k, n), rest \in parsedArgLists(k + 1, n)}

RECURSIVE dispatchArgLists(_, _)
dispatchArgLists(k, n) ==
    IF k > n THEN {<<>>}
    ELSE {<<x>> \o rest : x \in DispatchPosition(k, n), rest \in dispatchArgLists(k + 1, n)}

Match(args) == Arr(<<Str("match")>> \o args)

\* `match` expressions with any number of arguments up to MaxArgs
ParsedMatches == UNION {{Match(a) : a \in parsedArgLists(1, n)} : n \in 0..MaxArgs}

\* `match` expressions with up to MaxBranches label sets, all of them accepted,
\* with and without an output after the last label set
DispatchMatches ==
    UNION {{Match(a) : a \in dispatchArgLists(1, n)} : n \in 2..(2 * MaxBranches + 2)}

LiteralItems == {Num(1), Str("a"), Bool(TRUE), Null, Obj}
LiteralValues ==
    {Num(1), Str("a"), Null, Obj} \cup {Arr(a) : a \in SeqsUpTo(LiteralItems, MaxArrayLen)}

Literals ==
    {Arr(<<Str("literal"), v>>) : v \in LiteralValues}
    \cup {Arr(<<Str("literal")>>), Arr(<<Str("literal"), Num(1), Num(2)>>),
          Arr(<<Str("literal"), Undefined>>)}

Others ==
    {Null, Undefined, Num(1), Str("a"), Bool(TRUE), Obj, Arr(<<>>), Arr(<<Num(1)>>),
     UnknownOp, GetX}

\* e below d enclosing operators
RECURSIVE Enclosed(_, _)
Enclosed(e, d) ==
    IF d = 0 THEN e
    ELSE IF d % 3 = 1 THEN Arr(<<Str("get"), Enclosed(e, d - 1)>>)
    ELSE IF d % 3 = 2 THEN Match(<<GetX, Num(0), Enclosed(e, d - 1), Str("z")>>)
    ELSE Arr(<<Str("get"), Str("k"), Enclosed(e, d - 1)>>)

EnclosedExprs ==
    {Enclosed(e, d) :
        e \in Others \cup {Arr(<<Str("literal")>>), Arr(<<Str("literal"), Undefined>>)}
              \cup UNION {{Match(a) : a \in parsedArgLists(1, n)} : n \in 0..3},
        d \in 1..MaxDepth}

RawExprs == ParsedMatches \cup DispatchMatches \cup Literals \cup Others \cup EnclosedExprs

\* the values the input expression of a match may produce at run time
InputValues ==
    {Num(0), Num(1), Str("0"), Str("false"), Bool(FALSE), Bool(TRUE), Null, Obj,
     Arr(<<Num(0)>>)}

-----------------------------------------------------------------------------
(* The state machine.                                                      *)

Init ==
    /\ raw \in RawExprs
    /\ pc = "start"
    /\ result = None
    /\ serialized = None
    /\ withTypes = FALSE
    /\ compiled = None
    /\ input = None
    /\ invoked = <<>>
    /\ returned = None

\* parseExpression(raw, new ParsingContext(definitions))
Parse ==
    /\ pc = "start"
    /\ result' = parseExpression(raw, ParsingContext(<<>>, <<>>))
    /\ pc' = IF result'.ok THEN "parsed" ELSE "failed"
    /\ UNCHANGED <<raw, serialized, withTypes, compiled, input, invoked, returned>>

\* node.serialize(types)
Serialize(types) ==
    /\ pc = "parsed"
    /\ serialized' = serialize(result.node, types)
    /\ withTypes' = types
    /\ pc' = "serialized"
    /\ UNCHANGED <<raw, result, compiled, input, invoked, returned>>

\* node.compile(compiled arguments) for a parsed match; building the outputs
\* array and the table calls no thunk
Compile ==
    /\ pc = "parsed"
    /\ result.node.class = "match"
    /\ compiled' = MatchExpression_compile(
                       [k \in 1..Len(result.node.args) |->
                           CompiledExpression(result.node.args[k])])
    /\ invoked' = <<>>
    /\ pc' = "compiled"
    /\ UNCHANGED <<raw, result, serialized, withTypes, input, returned>>

\* one call of the generated function, the input expression producing v
Evaluate(v) ==
    /\ pc \in {"compiled", "evaluated"}
    /\ compiled.input.class = "LiteralExpression" => v = compiled.input.value
    /\ LET outputIndex == outputIndexOf(compiled.inputMap, v)
           called == thunksInvoked(compiled.outputs, outputIndex)
           selected == selectedOutput(compiled.outputs, outputIndex)
       IN /\ input' = v
          /\ invoked' = called
          /\ returned' = IF selected < Len(compiled.outputs)
                         THEN evaluateJs(compiled.outputs[selected + 1])
                         ELSE [t |-> "thrown", message |-> "outputs[outputIndex] is not a function"]
    /\ pc' = "evaluated"
    /\ UNCHANGED <<raw, result, serialized, withTypes, compiled>>

Next ==
    \/ Parse
    \/ \E types \in BOOLEAN : Serialize(types)
    \/ Compile
    \/ \E v \in InputValues : Evaluate(v)

Spec == Init /\ [][Next]_vars


-----------------------------------------------------------------------------
(* What the properties below speak about.                                  *)

IsMatch(e) == isArray(e) /\ Len(e.a) >= 1 /\ e.a[1] = Str("match")

\* the match expression a property is about, with its location: the root
\* expression, or the argument of an enclosing ["get", m]
Subject ==
    IF IsMatch(raw) THEN [found |-> TRUE, args |-> Tail(raw.a), key |-> "", path |-> <<>>]
    ELSE IF isArray(raw) /\ Len(raw.a) = 2 /\ raw.a[1] = Str("get") /\ IsMatch(raw.a[2])
    THEN [found |-> TRUE, args |-> Tail(raw.a[2].a), key |-> "1", path |-> <<1>>]
    ELSE [found |-> FALSE]

Parsed == pc # "start"

ArityMessage(n) == "Expected at least 2 arguments, but found only " \o NatToString(n) \o "."

\* the raw label sets of the root match, in argument order (number b from 0 is
\* the argument at position 2b + 1 of args, counted from 0)
Branches == {b \in 0..Len(raw.a) : 2 * b + 1 < Len(raw.a) - 2}
LabelSet(b) == inputGroupOf(raw.a[2 * b + 3])
Containing(v) == {b \in Branches : \E k \in 1..Len(LabelSet(b)) : LabelSet(b)[k] = v}
Last(S) == CHOOSE b \in S : \A c \in S : c <= b
\* input, (label set, output)+ / *, fallback: every label set has its own output
WellFormed == Len(raw.a) % 2 = 1
FallbackIndex == Len(compiled.outputs) - 1

-----------------------------------------------------------------------------
(* C1 *)

\* C1 as stated: a match with fewer than 2 arguments after the input (k < 2)
\* fails to parse: an error is returned and no node.
C1_FewerThanTwoTrailing ==
    (Parsed /\ Subject.found /\ Len(Subject.args) - 1 < 2) => ~result.ok

\* C1 amended: a match with no argument after the input (args.length < 2) fails
\* with the arity error located at the match; with one argument after the input
\* no arity error is raised.
C1_ArityError ==
    (Parsed /\ Subject.found)
        => /\ Len(Subject.args) < 2
                => /\ ~result.ok
                   /\ result.error = ParsingError(Subject.key, ArityMessage(Len(Subject.args)))
           /\ Len(Subject.args) >= 2
                => (result.ok \/ result.error.message # ArityMessage(Len(Subject.args)))

C1_Witness ==
    /\ pc = "failed"
    /\ Subject.found
    /\ Len(Subject.args) = 1
    /\ result.error = ParsingError(Subject.key, ArityMessage(1))

-----------------------------------------------------------------------------
(* C2 *)

\* C2: compiling invokes no output thunk, and each evaluation invokes exactly one
\* thunk, the one whose result it returns.
C2_OneThunkPerEvaluation ==
    /\ pc = "compiled" => invoked = <<>>
    /\ pc = "evaluated"
        => /\ Len(invoked) = 1
           /\ invoked[1] \in 0..(Len(compiled.outputs) - 1)
           /\ returned = evaluateJs(compiled.outputs[invoked[1] + 1])

\* an evaluation that selected a branch while the fallback is an accessor call
C2_Witness ==
    /\ pc = "evaluated"
    /\ Len(compiled.outputs) = 3
    /\ compiled.outputs[3].class = "get"
    /\ invoked = <<1>>
    /\ returned = Str("e")

-----------------------------------------------------------------------------
(* C3 *)

\* C3: the key stored at compile time and the key looked up at run time agree for
\* every string, number and boolean, and the table entry found for an input is
\* that of a label set holding a value of the same type and text, never that of a
\* value of another type with the same text.
C3_TypeTaggedDispatch ==
    /\ \A v \in {DispatchValues[k] : k \in DOMAIN DispatchValues} \cup InputValues :
          v.t \in {"string", "number", "boolean"} => inputMapKey(v) = lookupKey(v)
    /\ (pc = "evaluated" /\ input.t \in {"string", "number", "boolean"})
        => LET outputIndex == outputIndexOf(compiled.inputMap, input)
           IN IF Containing(input) = {}
              THEN outputIndex = Undefined
              ELSE outputIndex # Undefined /\ outputIndex.n \in Containing(input)

\* the string "0" selects the string-keyed branch although the number 0 labels another
C3_Witness ==
    /\ pc = "evaluated"
    /\ input = Str("0")
    /\ Containing(Num(0)) = {0}
    /\ Containing(Str("0")) = {1}
    /\ invoked = <<1>>

-----------------------------------------------------------------------------
(* C4 *)

\* C4: when the input value is in the label sets of several branches, the table
\* entry is the last of them in argument order and its output is returned.
C4_LastWriteWins ==
    (pc = "evaluated" /\ input.t \in {"string", "number", "boolean"}
        /\ Containing(input) # {})
        => /\ invoked = <<Last(Containing(input))>>
           /\ WellFormed
                => returned = evaluateJs(result.node.args[2 * Last(Containing(input)) + 3])

C4_Witness ==
    /\ pc = "evaluated"
    /\ WellFormed
    /\ Containing(input) = {0, 1}
    /\ returned = Str("e")

-----------------------------------------------------------------------------
(* C5 *)

-----------------------------------------------------------------------------
(* C6 *)

IsArrayLiteral ==
    /\ isArray(raw) /\ Len(raw.a) = 2
    /\ raw.a[1] = Str("literal") /\ isArray(raw.a[2])
Items == raw.a[2].a
\* every item has the same primitive type
SameKind(items) ==
    /\ Len(items) >= 1
    /\ typeof(items[1]) \in {"string", "number", "boolean"}
    /\ \A k \in 1..Len(items) : typeof(items[k]) = typeof(items[1])

\* C6 as stated: items of one primitive type give an array of that type with the
\* length fixed; mixed or non-primitive items give item type Value and an array
\* type that records no length.
C6_NoLengthWhenMixed ==
    (Parsed /\ IsArrayLiteral /\ Len(Items) >= 1)
        => /\ result.ok
           /\ IF SameKind(Items)
              THEN result.node.type = array(primitiveTypes(typeof(Items[1])), Len(Items))
              ELSE /\ result.node.type.itemType = ValueType
                   /\ "N" \notin DOMAIN result.node.type

\* C6 amended: items of one primitive type give an array of that type; mixed or
\* non-primitive items, and the empty array, give item type Value; in every case
\* the array type records the length of the literal.
C6_InferredArrayType ==
    (Parsed /\ IsArrayLiteral)
        => /\ result.ok
           /\ result.node.type =
                 IF SameKind(Items)
                 THEN array(primitiveTypes(typeof(Items[1])), Len(Items))
                 ELSE array(ValueType, Len(Items))

C6_Witness ==
    /\ pc = "parsed"
    /\ IsArrayLiteral
    /\ Items = <<Num(1), Str("a"), Bool(TRUE)>>
    /\ result.node.type = array(ValueType, 3)

-----------------------------------------------------------------------------
(* C7 *)

\* the raw expression with every bare match label made a one-element array
RECURSIVE PromoteLabels(_)
PromoteLabels(e) ==
    IF ~isArray(e) \/ Len(e.a) = 0 \/ e.a[1].t # "string" \/ e.a[1] = Str("literal") THEN e
    ELSE LET args == Tail(e.a) IN
         IF e.a[1] = Str("match")
         THEN Arr(<<e.a[1]>> \o
                  [k \in 1..Len(args) |->
                      IF k > 1 /\ k < Len(args) /\ isInputPosition(k - 1)
                      THEN Arr(inputGroupOf(args[k]))
                      ELSE PromoteLabels(args[k])])
         ELSE Arr(<<e.a[1]>> \o [k \in 1..Len(args) |-> PromoteLabels(args[k])])

\* ["literal", scalar], accepted by the parser but not among the forms of C7
IsScalarLiteral(e) ==
    /\ isArray(e) /\ Len(e.a) = 2 /\ e.a[1] = Str("literal")
    /\ e.a[2].t \notin {"array", "object"}

\* C7: serializing a parsed expression without types gives the raw expression
\* back, bare match labels being promoted to one-element arrays.
C7_RoundTrip ==
    (pc = "serialized" /\ ~withTypes /\ ~IsScalarLiteral(raw))
        => serialized = PromoteLabels(raw)

-----------------------------------------------------------------------------
(* C8 *)

\* C8: the location of every parse error is the index path of the offending
\* element joined with '.', and nothing else.
C8_LocationIsJoinedPath == pc = "failed" => result.error.key = join(result.at)

-----------------------------------------------------------------------------
(* C9 and C10 *)

EmptyMessage == "Expected at least one input value."
NotPrimitiveMessage ==
    "Match inputs must be literal primitive values or arrays of literal primitive values."

\* the label positions i of the subject's args (counted from 0) and their values
LabelPositions == {i \in 1..(Len(Subject.args) - 2) : i % 2 = 1}
Group(i) == inputGroupOf(Subject.args[i + 1])
GroupKey(i) == Subject.key \o "." \o NatToString(i + 1)
ValueKey(i, j) == GroupKey(i) \o "." \o NatToString(j)
Lowest(S) == CHOOSE j \in S : \A k \in S : j <= k

\* the values of label i (counted from 0) that are objects or arrays
ObjectsOrArrays(i) == {j \in 0..(Len(Group(i)) - 1) : Group(i)[j + 1].t \in {"object", "array"}}
\* the values of label i that are objects, arrays or null
ObjectsArraysOrNull(i) ==
    {j \in 0..(Len(Group(i)) - 1) : Group(i)[j + 1].t \in {"object", "array", "null"}}
\* no label set before position i is empty or holds an object, an array or null
NoneBefore(i) ==
    \A h \in LabelPositions :
        h < i => (Len(Group(h)) > 0 /\ ObjectsArraysOrNull(h) = {})

\* C9 as stated: every empty label set makes parsing fail with the empty-label
\* error located at <key>.<i+1>.
C9_EveryEmptyLabel ==
    (Parsed /\ Subject.found)
        => \A i \in LabelPositions :
              Subject.args[i + 1] = Arr(<<>>)
                  => /\ ~result.ok
                     /\ result.error = ParsingError(GroupKey(i), EmptyMessage)

\* C9 amended: an empty label set makes parsing fail with the empty-label error
\* located at <key>.<i+1> when no label set before it is empty or holds an
\* object, an array or null.
C9_FirstEmptyLabel ==
    (Parsed /\ Subject.found)
        => \A i \in LabelPositions :
              (Subject.args[i + 1] = Arr(<<>>) /\ NoneBefore(i))
                  => /\ ~result.ok
                     /\ result.error = ParsingError(GroupKey(i), EmptyMessage)

\* the second label set is empty, the first is accepted
C9_Witness ==
    /\ pc = "failed"
    /\ IsMatch(raw)
    /\ Len(raw.a) >= 6
    /\ raw.a[5] = Arr(<<>>)
    /\ result.error = ParsingError(".4", EmptyMessage)

\* C10 as stated: a non-empty label set is rejected exactly when it holds an
\* object or an array, at <key>.<i+1>.<j> for the first such j; null, strings,
\* numbers and booleans pass.
C10_ObjectsAndArraysOnly ==
    (Parsed /\ Subject.found)
        => \A i \in LabelPositions :
              Len(Group(i)) > 0
                  => IF ObjectsOrArrays(i) # {}
                     THEN /\ ~result.ok
                          /\ result.error =
                                ParsingError(ValueKey(i, Lowest(ObjectsOrArrays(i))),
                                             NotPrimitiveMessage)
                     ELSE \/ result.ok
                          \/ result.error.key
                                \notin {ValueKey(i, j) : j \in 0..(Len(Group(i)) - 1)}

\* C10 amended: a non-empty label set with no invalid label set before it is
\* rejected exactly when it holds an object, an array or null, at
\* <key>.<i+1>.<j> for the first such j; strings, numbers and booleans pass, a
\* bare value counting as the one-element array of that value.
C10_RejectedLabelValues ==
    (Parsed /\ Subject.found)
        => \A i \in LabelPositions :
              (Len(Group(i)) > 0 /\ NoneBefore(i))
                  => IF ObjectsArraysOrNull(i) # {}
                     THEN /\ ~result.ok
                          /\ result.error =
                                ParsingError(ValueKey(i, Lowest(ObjectsArraysOrNull(i))),
                                             NotPrimitiveMessage)
                     ELSE \/ result.ok
                          \/ result.error.key
                                \notin {ValueKey(i, j) : j \in 0..(Len(Group(i)) - 1)}
                                       \cup {GroupKey(i)}

\* a label set whose second value is null is rejected at that value
C10_Witness ==
    /\ pc = "failed"
    /\ IsMatch(raw)
    /\ Len(raw.a) >= 4
    /\ raw.a[3] = Arr(<<Num(0), Null>>)
    /\ result.error = ParsingError(".2.1", NotPrimitiveMessage)

-----------------------------------------------------------------------------
(* C11 *)

UnknownMessage ==
    "Unknown expression \"foo\". If you wanted a literal array, use [\"literal\", [...]]."

\* the context the subject match is parsed in, and the location of its input
SubjectContext ==
    ParsingContext(Subject.path, IF Subject.key = "" THEN <<>> ELSE <<"get">>)
InputKey == join(Append(Subject.path, 1))

\* the label sets of the subject that the label loop rejects
InvalidLabels == {i \in LabelPositions : Len(Group(i)) = 0 \/ ObjectsArraysOrNull(i) # {}}

\* what parsing the argument at position k (counted from 1) alone gives
ArgResult(k) == parseExpression(Subject.args[k], concat(SubjectContext, k, "match"))
\* the arguments that are expressions (not label sets) and fail to parse
FailingArgs ==
    {k \in 1..Len(Subject.args) : (k - 1) \notin LabelPositions /\ ~ArgResult(k).ok}

\* C11 as stated: the input expression is parsed before the label sets are
\* validated, so a match with an unknown operator as input and an empty or
\* non-primitive label set fails with the input's error.
C11_InputErrorFirst ==
    (/\ Parsed
     /\ Subject.found
     /\ Len(Subject.args) >= 2
     /\ Subject.args[1] = UnknownOp
     /\ \E i \in LabelPositions : Len(Group(i)) = 0 \/ ObjectsOrArrays(i) # {})
        => /\ ~result.ok
           /\ result.error = ParsingError(InputKey \o ".0", UnknownMessage)

\* C11 amended: after the arity check every label set is validated before any
\* argument is parsed: a match with a rejected label set fails with the error of
\* its first rejected label set, whatever its input expression is; only when
\* every label set passes are the input, the outputs and the fallback parsed in
\* argument order, the first failing one giving the error.
C11_LabelsBeforeInput ==
    (Parsed /\ Subject.found /\ Len(Subject.args) >= 2)
        => IF InvalidLabels # {}
           THEN LET i == Lowest(InvalidLabels) IN
                /\ ~result.ok
                /\ result.error.key
                      \in {GroupKey(i)} \cup {ValueKey(i, j) : j \in 0..(Len(Group(i)) - 1)}
                /\ result.error.message \in {EmptyMessage, NotPrimitiveMessage}
           ELSE /\ Subject.args[1] = UnknownOp
                     => /\ ~result.ok
                        /\ result.error = ParsingError(InputKey \o ".0", UnknownMessage)
                /\ IF FailingArgs = {} THEN result.ok
                   ELSE result = ArgResult(Lowest(FailingArgs))

\* an unknown operator as input and an empty first label set: the label set's
\* error is the one returned
C11_Witness ==
    /\ pc = "failed"
    /\ IsMatch(raw)
    /\ Len(raw.a) >= 5
    /\ raw.a[2] = UnknownOp
    /\ raw.a[3] = Arr(<<>>)
    /\ result.error = ParsingError(".2", EmptyMessage)

-----------------------------------------------------------------------------
(* C12 *)

IsOperatorNode(node) == node.class # "LiteralExpression"

\* the operator nodes of a syntax tree
RECURSIVE OperatorNodes(_)
OperatorNodes(node) ==
    IF ~IsOperatorNode(node) THEN {}
    ELSE {node} \cup UNION {OperatorNodes(node.args[k]) : k \in DOMAIN node.args}

\* the type variables that occur in a type
RECURSIVE TypeVariables(_)
TypeVariables(type) ==
    CASE type.kind = "typename" -> {type.name}
      [] type.kind = "array" -> TypeVariables(type.itemType)
      [] type.kind = "nargs" -> UNION {TypeVariables(type.types[k]) : k \in DOMAIN type.types}
      [] type.kind = "lambda" ->
            TypeVariables(type.result)
                \cup UNION {TypeVariables(type.params[k]) : k \in DOMAIN type.params}
      [] OTHER -> {}

\* C12 as stated: no operator node of a parsed tree stores a generic declaration
\* returned by getType(), and no stored type has an unbound type variable.
C12_ResolvedTypeStored ==
    (Parsed /\ result.ok)
        => \A node \in OperatorNodes(result.node) :
              /\ TypeVariables(node.type) = {}
              /\ TypeVariables(getType(node.class)) # {} => node.type # getType(node.class)

\* C12 amended: every operator node of a parsed tree stores the declaration
\* returned by its operator's getType() unchanged, a lambda type; for match it is
\* the generic declaration, in which T and U are unbound.
C12_DeclarationStored ==
    (Parsed /\ result.ok)
        => \A node \in OperatorNodes(result.node) :
              /\ node.type = getType(node.class)
              /\ node.type.kind = "lambda"
              /\ node.class = "match"
                    => /\ node.type = MatchExpression_getType
                       /\ TypeVariables(node.type) = {"T", "U"}

\* a parsed match whose input and first output are parsed ["get", ..] nodes:
\* every node stores its declaration
C12_Witness ==
    /\ pc = "parsed"
    /\ result.node.class = "match"
    /\ Len(result.node.args) = 4
    /\ TypeVariables(result.node.type) = {"T", "U"}
    /\ result.node.args[1].class = "get"
    /\ result.node.args[3].class = "get"
    /\ result.node.args[3].type = lambda(ValueType, <<StringType>>)

-----------------------------------------------------------------------------
(* C13 *)

Compiled == pc \in {"compiled", "evaluated"}

\* C13: every index stored in inputMap is an index of the outputs array, for
\* argument lists of even and of odd length, so no evaluation calls a thunk that
\* does not exist; and for the shape input, (label set, output)*, fallback no
\* entry is the fallback index, and an entry i belongs to a value of the i-th
\* label set and selects the output that follows that label set.
C13_ValidIndexes ==
    Compiled
        => /\ \A key \in DOMAIN compiled.inputMap :
                 /\ 0 <= compiled.inputMap[key]
                 /\ compiled.inputMap[key] <= Len(compiled.outputs) - 1
           /\ pc = "evaluated" => returned.t # "thrown"
           /\ WellFormed
                 => \A key \in DOMAIN compiled.inputMap :
                       LET i == compiled.inputMap[key] IN
                       /\ i # FallbackIndex
                       /\ i \in Branches
                       /\ \E k \in 1..Len(LabelSet(i)) : inputMapKey(LabelSet(i)[k]) = key
                       /\ compiled.outputs[i + 1] = result.node.args[2 * i + 3]
                       /\ compiled.outputs[i + 1].key = NatToString(2 * i + 3)

\* an argument list of odd length with one full branch and a label set that
\* has no output of its own: its entry is the fallback index, and an evaluation
\* hits it
C13_Witness ==
    /\ pc = "evaluated"
    /\ ~WellFormed
    /\ Len(compiled.outputs) = 2
    /\ \E key \in DOMAIN compiled.inputMap :
          /\ compiled.inputMap[key] = FallbackIndex
          /\ lookupKey(input) = key
    /\ \E key \in DOMAIN compiled.inputMap : compiled.inputMap[key] = 0

====
